---- MODULE Spec2Model ----
(***************************************************************************)
(* Conway's Game of Life widget (assets/js/conway-game.js): the            *)
(* ConwayGameOfLife instance, the DOM state it drives and the handlers     *)
(* the browser delivers to it.                                             *)
(*                                                                         *)
(* Representation.  A JavaScript array is a function on 0..length-1.  A    *)
(* cell holds one of the JavaScript values true, false and undefined,      *)
(* written "true", "false" and "undefined".  The two grid arrays are       *)
(* objects with identity: game.bufs holds the two live array objects and   *)
(* game.grid / game.nextGrid are the references this.grid / this.nextGrid  *)
(* ("A", "B", or "null").                                                  *)
(***************************************************************************)
EXTENDS Integers, Sequences, FiniteSets, TLC

VARIABLES
    game,           \* the fields of the ConwayGameOfLife instance (this.*)
    dom,            \* canvas classes, cursor, grid-clickable classes, button icon
    now,            \* timestamp of the latest animation frame delivered
    frame,          \* TRUE iff a requestAnimationFrame callback is pending
    resizeTimeout,  \* TRUE iff the debounce timer of the resize listener is pending
    listeners,      \* the event listeners registered on behalf of the instance
    page,           \* window.conwayGame is set; document.hidden
    theme,          \* the data-theme attribute, localStorage's theme item, the
                    \* theme switch and the system's colour scheme
    life,           \* history: destroy() calls; playback state at the latest
                    \* hidden notification; user toggles since then
    seed,           \* history: the input the run started from
    gen,            \* history: direct updateGrid calls since the start
    lastOp,         \* history: the handler that produced this state
    pre,            \* history: fields of the state that handler started from
    args,           \* history: the input of that handler
    calls,          \* history: how often that handler ran updateGrid / redraw
    result,         \* history: the value a direct call returned ("none" if none)
    error           \* history: the exception that handler raised ("none" if none)

vars == <<game, dom, now, frame, resizeTimeout, listeners, page, theme, life, seed, gen,
          lastOp, pre, args, calls, result, error>>

(***************************************************************************)
(* Bounds of the model.                                                    *)
(***************************************************************************)
MaxRows == 2        \* grid rows of the full program run: 0..MaxRows
MaxCols == 2        \* grid columns of the full program run: 0..MaxCols
MaxFrames == 3      \* animation frames delivered in one run
MaxStepCells == 9   \* cells of a grid when updateGrid is checked on every grid
MaxPatRows == 6     \* grid rows when updateGrid is checked on the still lifes / blinker
MaxPatCols == 6     \* grid columns, likewise
MaxGenerations == 5  \* generations followed from each such pattern
MaxLifeRows == 1     \* grid rows when visibility and destroy() are checked
MaxLifeCols == 1     \* grid columns, likewise
MaxDestroyCalls == 2 \* calls of destroy() in one run
MaxLoadCols == 5     \* grid columns when the initial pattern is checked
StepGenerations == 1 \* generations followed from each arbitrary grid

(***************************************************************************)
(* CONFIG                                                                  *)
(***************************************************************************)
CELL_SIZE == 12
INITIAL_UPDATE_INTERVAL == 100
INITIAL_RANDOM_CELLS == 64
SURVIVAL_MIN == 2
SURVIVAL_MAX == 3
BIRTH_COUNT == 3
SLIDER_MIN == 0
SLIDER_MAX == 100
SLIDER_DEFAULT == 50
BASE_INTERVAL == 200
CLASS_PAUSED == "paused"
CLASS_PLAYING == "playing"
CURSOR_DEFAULT == "default"
CURSOR_CROSSHAIR == "crosshair"
ICON_PAUSE == "PAUSE"
ICON_PLAY == "PLAY"

(***************************************************************************)
(* JavaScript values and arrays                                            *)
(***************************************************************************)
Min(a, b) == IF a <= b THEN a ELSE b

RECURSIVE GCD(_, _)
GCD(a, b) == IF b = 0 THEN a ELSE GCD(b, a % b)

\* the number n / d (n >= 0, d > 0) in lowest terms; the step interval is
\* such a number of milliseconds
Ratio(n, d) == [num |-> n \div GCD(n, d), den |-> d \div GCD(n, d)]

\* x >= r for an integer x and a number r
AtLeast(x, r) == x * r.den >= r.num

\* x > r for an integer x and a number r
Exceeds(x, r) == x * r.den > r.num

\* a string is the sequence of its characters
DigitChars == <<"0", "1", "2", "3", "4", "5", "6", "7", "8", "9">>

IsDigit(c) == \E k \in DOMAIN DigitChars : DigitChars[k] = c

DigitValue(c) == (CHOOSE k \in DOMAIN DigitChars : DigitChars[k] = c) - 1

\* String(n) for an integer n >= 0
RECURSIVE NumberToString(_)
NumberToString(n) ==
    IF n < 10 THEN <<DigitChars[n + 1]>>
    ELSE Append(NumberToString(n \div 10), DigitChars[(n % 10) + 1])

RECURSIVE SkipWhiteSpace(_)
SkipWhiteSpace(s) ==
    IF s # << >> /\ Head(s) = " " THEN SkipWhiteSpace(Tail(s)) ELSE s

\* the value of the longest prefix of decimal digits of s, after acc
RECURSIVE DigitsPrefix(_, _)
DigitsPrefix(s, acc) ==
    IF s = << >> \/ ~IsDigit(Head(s)) THEN acc
    ELSE DigitsPrefix(Tail(s), 10 * acc + DigitValue(Head(s)))

\* mutant of parseInt: a string with anything after its digits is not a number
parseIntWholeString(s) ==
    LET t == SkipWhiteSpace(s)
        signed == t # << >> /\ Head(t) \in {"-", "+"}
        u == IF signed THEN Tail(t) ELSE t
        n == DigitsPrefix(u, 0)
    IN  IF u = << >> \/ \E k \in DOMAIN u : ~IsDigit(u[k])
        THEN [isNaN |-> TRUE, value |-> 0]
        ELSE [isNaN |-> FALSE, value |-> IF Head(t) = "-" THEN -n ELSE n]

\* parseInt(s, 10): leading white space, a sign, then the longest prefix of
\* digits; NaN if there is no digit
parseInt(s) ==
    LET t == SkipWhiteSpace(s)
        signed == t # << >> /\ Head(t) \in {"-", "+"}
        u == IF signed THEN Tail(t) ELSE t
        n == DigitsPrefix(u, 0)
    IN  IF u = << >> \/ ~IsDigit(Head(u))
        THEN [isNaN |-> TRUE, value |-> 0]
        ELSE [isNaN |-> FALSE, value |-> IF Head(t) = "-" THEN -n ELSE n]

\* a boolean expression's value as a cell value
JsBool(b) == IF b THEN "true" ELSE "false"

\* if (v) ...
Truthy(v) == v = "true"

\* !v
JsNot(v) == JsBool(~Truthy(v))

\* a[k]: reading past the end of an array yields undefined
ArrGet(a, k) == IF k \in DOMAIN a THEN a[k] ELSE "undefined"

\* a[k] = v: writing past the end of an array lengthens it
ArrSet(a, k, v) ==
    IF k \in DOMAIN a
    THEN [a EXCEPT ![k] = v]
    ELSE [i \in 0..k |-> IF i = k THEN v ELSE ArrGet(a, i)]

\* new Array(n).fill(v)
NewArray(n, v) == [i \in 0..(n - 1) |-> v]

\* a.length
Length(a) == Cardinality(DOMAIN a)

\* m[i][j] = v
MatSet(m, i, j, v) == [m EXCEPT ![i] = ArrSet(m[i], j, v)]

\* m[i][j]
MatGet(m, i, j) == ArrGet(m[i], j)

\* the array object this.grid refers to
ActiveCells(g) == g.bufs[g.grid]

\* the array object this.nextGrid refers to
ScratchCells(g) == g.bufs[g.nextGrid]

(***************************************************************************)
(* initializeGrid, transferGridData                                        *)
(***************************************************************************)
\* two freshly allocated arrays of this.rows rows, each row a fresh array of
\* this.cols cells filled with false
initializeGrid(g) ==
    [g EXCEPT !.bufs = [A |-> NewArray(g.rows, NewArray(g.cols, "false")),
                        B |-> NewArray(g.rows, NewArray(g.cols, "false"))],
              !.grid = "A",
              !.nextGrid = "B"]

\* oldGrid[0]?.length || 0
FirstRowLength(oldGrid) == IF 0 \in DOMAIN oldGrid THEN Length(oldGrid[0]) ELSE 0

\* copies oldGrid[i][j] into this.grid[i][j] for i < minRows, j < minCols
transferGridData(g, oldGrid) ==
    LET minRows == Min(g.rows, Length(oldGrid))
        minCols == Min(g.cols, FirstRowLength(oldGrid))
        m == ActiveCells(g)
        copied == [i \in DOMAIN m |->
                     [j \in DOMAIN m[i] |->
                        IF i < minRows /\ j < minCols
                        THEN MatGet(oldGrid, i, j)
                        ELSE m[i][j]]]
    IN  [g EXCEPT !.bufs[g.grid] = copied]

(***************************************************************************)
(* updateGrid                                                              *)
(***************************************************************************)
\* mutant of CountNeighbors: no wrap-around, positions off the grid count as dead
CountNeighborsNoWrap(m, rows, cols, i, j) ==
    LET one(r, c) == IF r \in DOMAIN m /\ Truthy(MatGet(m, r, c)) THEN 1 ELSE 0
    IN  one(i - 1, j - 1) + one(i - 1, j) + one(i - 1, j + 1)
      + one(i, j - 1) + one(i, j + 1)
      + one(i + 1, j - 1) + one(i + 1, j) + one(i + 1, j + 1)

\* mutant of CountNeighbors: the cell itself is counted with its neighbours
CountNeighborsWithSelf(m, rows, cols, i, j) ==
    LET one(r, c) == IF Truthy(MatGet(m, r, c)) THEN 1 ELSE 0
    IN  one((i - 1 + rows) % rows, (j - 1 + cols) % cols)
      + one((i - 1 + rows) % rows, j) + one((i - 1 + rows) % rows, (j + 1) % cols)
      + one(i, (j - 1 + cols) % cols) + one(i, j) + one(i, (j + 1) % cols)
      + one((i + 1) % rows, (j - 1 + cols) % cols)
      + one((i + 1) % rows, j) + one((i + 1) % rows, (j + 1) % cols)

\* the unrolled neighbour count of cell (i, j), read from the array m
CountNeighbors(m, rows, cols, i, j) ==
    LET rowAbove == (i - 1 + rows) % rows
        rowBelow == (i + 1) % rows
        colLeft == (j - 1 + cols) % cols
        colRight == (j + 1) % cols
        one(r, c) == IF Truthy(MatGet(m, r, c)) THEN 1 ELSE 0
    IN  one(rowAbove, colLeft) + one(rowAbove, j) + one(rowAbove, colRight)
      + one(i, colLeft) + one(i, colRight)
      + one(rowBelow, colLeft) + one(rowBelow, j) + one(rowBelow, colRight)

\* mutant of NewState: a live cell survives on any count up to SURVIVAL_MAX
NewStateNoUnderpopulation(cell, count) ==
    IF Truthy(cell)
    THEN JsBool(count <= SURVIVAL_MAX)
    ELSE JsBool(count = BIRTH_COUNT)

\* mutant of NewState: a live cell survives on SURVIVAL_MAX neighbours only
NewStateSurviveOnMaxOnly(cell, count) ==
    IF Truthy(cell)
    THEN JsBool(count = SURVIVAL_MAX)
    ELSE JsBool(count = BIRTH_COUNT)

\* Conway's rules for a cell value and its neighbour count
NewState(cell, count) ==
    IF Truthy(cell)
    THEN JsBool(count = SURVIVAL_MIN \/ count = SURVIVAL_MAX)
    ELSE JsBool(count = BIRTH_COUNT)

\* mutant of StoreCell: the store is skipped for a cell that keeps its value
StoreCellIfChanged(scratch, i, j, cell, newState) ==
    IF newState # cell THEN MatSet(scratch, i, j, newState) ELSE scratch

\* the value the loop body stores in this.nextGrid[i][j]
StoreCell(scratch, i, j, cell, newState) == MatSet(scratch, i, j, newState)

\* the loop body for cell number k = i * cols + j and every later cell, in the
\* order of the two nested loops; each iteration reads the array this.grid
\* refers to and writes the array this.nextGrid refers to
RECURSIVE UpdateCells(_, _, _)
UpdateCells(g, k, changed) ==
    IF k >= g.rows * g.cols
    THEN [g EXCEPT !.gridChanged = changed]
    ELSE LET i == k \div g.cols
             j == k % g.cols
             count == CountNeighbors(ActiveCells(g), g.rows, g.cols, i, j)
             cell == MatGet(ActiveCells(g), i, j)
             newState == NewState(cell, count)
             g1 == [g EXCEPT !.bufs[g.nextGrid] =
                        StoreCell(ScratchCells(g), i, j, cell, newState)]
         IN  UpdateCells(g1, k + 1, changed \/ newState # cell)

\* [this.grid, this.nextGrid] = [this.nextGrid, this.grid]
SwapGrids(g) == [g EXCEPT !.grid = g.nextGrid, !.nextGrid = g.grid]

\* mutant of updateGrid: the step asks for a repaint whether or not a cell changed
updateGridAlwaysRedraws(g) ==
    LET g1 == SwapGrids(UpdateCells(g, 0, FALSE))
    IN  [g1 EXCEPT !.needsRedraw = TRUE]

updateGrid(g) ==
    LET g1 == SwapGrids(UpdateCells(g, 0, FALSE))
    IN  IF g1.gridChanged THEN [g1 EXCEPT !.needsRedraw = TRUE] ELSE g1

(***************************************************************************)
(* loadInitialPattern, addRandomCells                                      *)
(***************************************************************************)
gliderGun ==
    << <<0,0,0,0,0,0,0,0,0,0,0,0,0,0,0,0,0,0,0,0,0,0,0,0,1,0,0,0,0,0,0,0,0,0,0,0>>,
       <<0,0,0,0,0,0,0,0,0,0,0,0,0,0,0,0,0,0,0,0,0,0,1,0,1,0,0,0,0,0,0,0,0,0,0,0>>,
       <<0,0,0,0,0,0,0,0,0,0,0,0,1,1,0,0,0,0,0,0,1,1,0,0,0,0,0,0,0,0,0,0,0,0,1,1>>,
       <<0,0,0,0,0,0,0,0,0,0,0,1,0,0,0,1,0,0,0,0,1,1,0,0,0,0,0,0,0,0,0,0,0,0,1,1>>,
       <<1,1,0,0,0,0,0,0,0,0,1,0,0,0,0,0,1,0,0,0,1,1,0,0,0,0,0,0,0,0,0,0,0,0,0,0>>,
       <<1,1,0,0,0,0,0,0,0,0,1,0,0,0,1,0,1,1,0,0,0,0,1,0,1,0,0,0,0,0,0,0,0,0,0,0>>,
       <<0,0,0,0,0,0,0,0,0,0,1,0,0,0,0,0,1,0,0,0,0,0,0,0,1,0,0,0,0,0,0,0,0,0,0,0>>,
       <<0,0,0,0,0,0,0,0,0,0,0,1,0,0,0,1,0,0,0,0,0,0,0,0,0,0,0,0,0,0,0,0,0,0,0,0>>,
       <<0,0,0,0,0,0,0,0,0,0,0,0,1,1,0,0,0,0,0,0,0,0,0,0,0,0,0,0,0,0,0,0,0,0,0,0>> >>

\* the two nested loops that copy the pattern, centred, into this.grid; the
\* guard keeps every write inside [0, rows) x [0, cols)
PlacePattern(g) ==
    LET startRow == (g.rows \div 2) - (Len(gliderGun) \div 2)
        startCol == (g.cols \div 2) - (Len(gliderGun[1]) \div 2)
        m == ActiveCells(g)
        InPattern(r, c) == /\ r - startRow \in 0..(Len(gliderGun) - 1)
                           /\ c - startCol \in 0..(Len(gliderGun[1]) - 1)
                           /\ r >= 0 /\ r < g.rows /\ c >= 0 /\ c < g.cols
        placed == [r \in DOMAIN m |->
                     [c \in DOMAIN m[r] |->
                        IF InPattern(r, c)
                        THEN JsBool(gliderGun[r - startRow + 1][c - startCol + 1] = 1)
                        ELSE m[r][c]]]
    IN  [g EXCEPT !.bufs[g.grid] = placed]

\* the cells Math.floor(Math.random() * rows), Math.floor(Math.random() * cols)
\* can address: Math.random() < 1, and a product with 0 floors to 0
RandomTargets(g) ==
    {<<r, c>> : r \in 0..(IF g.rows = 0 THEN 0 ELSE g.rows - 1),
                c \in 0..(IF g.cols = 0 THEN 0 ELSE g.cols - 1)}

\* The outcomes of `count` random writes, each of Math.random() > 0.7 to a
\* random target: per target the value written last, or "keep" when no write
\* addressed it.  At least one and at most `count` targets are written.
RandomOutcomes(g, count) ==
    {w \in [RandomTargets(g) -> {"keep", "true", "false"}] :
        LET written == {t \in RandomTargets(g) : w[t] # "keep"}
        IN  written # {} /\ Cardinality(written) <= count}

\* this.grid[row][col] = value for every written target of the outcome w
RECURSIVE ApplyWrites(_, _, _)
ApplyWrites(m, w, todo) ==
    IF todo = {}
    THEN m
    ELSE LET t == CHOOSE t \in todo : TRUE
         IN  ApplyWrites(IF w[t] = "keep" THEN m ELSE MatSet(m, t[1], t[2], w[t]),
                         w, todo \ {t})

\* addRandomCells(count) under the random outcome w.  With rows = 0 the first
\* write reads this.grid[0], which is undefined, and indexing it raises a
\* TypeError before anything is written.
addRandomCells(g, w) ==
    IF g.rows = 0
    THEN [game |-> g, error |-> "TypeError"]
    ELSE [game |-> [g EXCEPT !.bufs[g.grid] = ApplyWrites(ActiveCells(g), w, DOMAIN w)],
          error |-> "none"]

loadInitialPattern(g, w) == addRandomCells(PlacePattern(g), w)

(***************************************************************************)
(* sliderToSpeed.  A speed multiplier is a number of ten-thousandths:      *)
(* SpeedUnit stands for 1.0.                                               *)
(***************************************************************************)
SpeedUnit == 10000

\* CONFIG.SPEED.MIN_SPEED (0.1) and CONFIG.SPEED.MAX_SPEED (10)
MIN_SPEED == SpeedUnit \div 10
MAX_SPEED == 10 * SpeedUnit

Max(a, b) == IF a >= b THEN a ELSE b

\* Math.pow(10, n / 50) for n in -50..50, rounded to four decimals
Pow10Table ==
    <<
       1000, 1047, 1096, 1148, 1202, 1259, 1318, 1380, 1445, 1514,
       1585, 1660, 1738, 1820, 1905, 1995, 2089, 2188, 2291, 2399,
       2512, 2630, 2754, 2884, 3020, 3162, 3311, 3467, 3631, 3802,
       3981, 4169, 4365, 4571, 4786, 5012, 5248, 5495, 5754, 6026,
       6310, 6607, 6918, 7244, 7586, 7943, 8318, 8710, 9120, 9550,
       10000, 10471, 10965, 11482, 12023, 12589, 13183, 13804, 14454, 15136,
       15849, 16596, 17378, 18197, 19055, 19953, 20893, 21878, 22909, 23988,
       25119, 26303, 27542, 28840, 30200, 31623, 33113, 34674, 36308, 38019,
       39811, 41687, 43652, 45709, 47863, 50119, 52481, 54954, 57544, 60256,
       63096, 66069, 69183, 72444, 75858, 79433, 83176, 87096, 91201, 95499,
       100000
    >>

\* Math.pow(10, normalized), where normalized = n / SLIDER_DEFAULT
Pow10(n) == Pow10Table[n + SLIDER_DEFAULT + 1]

\* mutant of sliderToSpeed: the slider value is normalized upside down
sliderToSpeedInverted(sliderValue) ==
    Max(MIN_SPEED, Min(MAX_SPEED, Pow10(SLIDER_DEFAULT - sliderValue)))

\* sliderToSpeed(sliderValue): 10 ^ ((sliderValue - 50) / 50), clamped to
\* MIN_SPEED..MAX_SPEED
sliderToSpeed(sliderValue) ==
    Max(MIN_SPEED, Min(MAX_SPEED, Pow10(sliderValue - SLIDER_DEFAULT)))

\* speedMultiplier.toFixed(1), in tenths
ToFixed1(speed) == (speed + SpeedUnit \div 20) \div (SpeedUnit \div 10)

\* CONFIG.SPEED.BASE_INTERVAL / speedMultiplier, in milliseconds
IntervalFor(speed) == Ratio(BASE_INTERVAL * SpeedUnit, speed)

\* mutant of speedInput: the lower end of the slider's range is rejected
speedInputAboveMin(g, d) ==
    LET sliderValue == parseInt(d.slider)
    IN  IF ~sliderValue.isNaN /\ sliderValue.value > SLIDER_MIN
           /\ sliderValue.value <= SLIDER_MAX
        THEN LET speedMultiplier == sliderToSpeed(sliderValue.value)
             IN  [game |-> [g EXCEPT !.updateInterval = IntervalFor(speedMultiplier)],
                  dom |-> [d EXCEPT !.speedLabel = ToFixed1(speedMultiplier)]]
        ELSE [game |-> g, dom |-> d]

\* the input listener of the speed slider; d.slider: e.target.value
speedInput(g, d) ==
    LET sliderValue == parseInt(d.slider)
    IN  IF ~sliderValue.isNaN /\ sliderValue.value >= SLIDER_MIN
           /\ sliderValue.value <= SLIDER_MAX
        THEN LET speedMultiplier == sliderToSpeed(sliderValue.value)
             IN  [game |-> [g EXCEPT !.updateInterval = IntervalFor(speedMultiplier)],
                  dom |-> [d EXCEPT !.speedLabel = ToFixed1(speedMultiplier)]]
        ELSE [game |-> g, dom |-> d]

(***************************************************************************)
(* handleCanvasClick, togglePlayPause, redraw, gameLoop                    *)
(***************************************************************************)
\* Math.floor(pixel / this.cellSize)
CellOf(pixel) == pixel \div CELL_SIZE

\* mutant of InBounds: the column bound is off by one
InBoundsUpToCols(g, row, col) == row >= 0 /\ row < g.rows /\ col >= 0 /\ col <= g.cols

\* row >= 0 && row < this.rows && col >= 0 && col < this.cols
InBounds(g, row, col) == row >= 0 /\ row < g.rows /\ col >= 0 /\ col < g.cols

\* the assignment made by a click that passed the bounds test
FlipCell(g, row, col) ==
    [g EXCEPT !.bufs[g.grid] = MatSet(ActiveCells(g), row, col,
                                      JsNot(MatGet(ActiveCells(g), row, col))),
              !.needsRedraw = TRUE]

\* mutant of handleCanvasClick: the playback state is not consulted
handleCanvasClickWhilePlaying(g, x, y) ==
    IF InBounds(g, CellOf(y), CellOf(x)) THEN FlipCell(g, CellOf(y), CellOf(x))
    ELSE g

\* the exception handleCanvasClick raises, if any: once destroy() has set
\* this.grid to null while rows and cols keep their values, this.grid[row] of
\* a click that passed the bounds test raises a TypeError
handleCanvasClickError(g, x, y) ==
    IF ~g.isPlaying /\ InBounds(g, CellOf(y), CellOf(x)) /\ g.grid = "null"
    THEN "TypeError"
    ELSE "none"

\* x, y: the click position relative to the canvas' bounding rectangle; the
\* state is left as it was when the handler raises
handleCanvasClick(g, x, y) ==
    IF g.isPlaying THEN g
    ELSE IF InBounds(g, CellOf(y), CellOf(x))
         THEN IF handleCanvasClickError(g, x, y) # "none" THEN g
              ELSE FlipCell(g, CellOf(y), CellOf(x))
    ELSE g

\* the elements togglePlayPause gives or takes the class grid-clickable
ClickableElements == {"gameSection", "mainContent", "heroSection", "contentContainer"}

\* classList.toggle(name, force)
ClassToggle(classes, name, force) ==
    IF force THEN classes \cup {name} ELSE classes \ {name}

\* the icon, classes and cursor togglePlayPause sets for a playback state
ShowPlayback(d, playing) ==
    [d EXCEPT !.icon = IF playing THEN ICON_PAUSE ELSE ICON_PLAY,
              !.canvasClasses = ClassToggle(ClassToggle(@, CLASS_PAUSED, ~playing),
                                            CLASS_PLAYING, playing),
              !.cursor = IF playing THEN CURSOR_DEFAULT ELSE CURSOR_CROSSHAIR,
              !.gridClickable = IF ~playing THEN @ \cup ClickableElements
                                ELSE @ \ ClickableElements]

togglePlayPause(g, d) ==
    LET g1 == [g EXCEPT !.isPlaying = ~g.isPlaying]
    IN  [game |-> [g1 EXCEPT !.needsRedraw = TRUE],
         dom |-> ShowPlayback(d, g1.isPlaying)]

\* redraw: repaints and clears the flag, unless the flag is clear already
redraw(g) == IF ~g.needsRedraw THEN g ELSE [g EXCEPT !.needsRedraw = FALSE]

\* the cells redraw gives a rectangle: those with a truthy this.grid[i][j]
PaintedCells(g) ==
    {<<i, j>> \in (0..(g.rows - 1)) \X (0..(g.cols - 1)) :
        Truthy(MatGet(ActiveCells(g), i, j))}

\* mutant of StepDue: the interval must be exceeded, not only reached
StepDueStrict(g, currentTime) ==
    g.isPlaying /\ Exceeds(currentTime - g.lastUpdateTime, g.updateInterval)

\* this.isPlaying && currentTime - this.lastUpdateTime >= this.updateInterval
StepDue(g, currentTime) ==
    g.isPlaying /\ AtLeast(currentTime - g.lastUpdateTime, g.updateInterval)

\* mutant of gameLoop: the redraw decision is taken before the step
gameLoopRedrawFirst(g, currentTime) ==
    LET due == StepDue(g, currentTime)
        g1 == IF g.needsRedraw THEN redraw(g) ELSE g
        g2 == IF due
              THEN [updateGrid(g1) EXCEPT !.lastUpdateTime = currentTime]
              ELSE g1
    IN  [game |-> [g2 EXCEPT !.animationId = "frame"],
         calls |-> [updateGrid |-> IF due THEN 1 ELSE 0,
                    redraw |-> IF g.needsRedraw THEN 1 ELSE 0,
                    painted |-> IF g.needsRedraw THEN PaintedCells(g) ELSE {},
                    togglePlayPause |-> 0]]

\* one call of gameLoop(currentTime); `calls` counts the updateGrid and redraw
\* calls it made and holds the cells the redraw painted
gameLoop(g, currentTime) ==
    LET due == StepDue(g, currentTime)
        g1 == IF due
              THEN [updateGrid(g) EXCEPT !.lastUpdateTime = currentTime]
              ELSE g
        g2 == IF g1.needsRedraw THEN redraw(g1) ELSE g1
    IN  [game |-> [g2 EXCEPT !.animationId = "frame"],
         calls |-> [updateGrid |-> IF due THEN 1 ELSE 0,
                    redraw |-> IF g1.needsRedraw THEN 1 ELSE 0,
                    painted |-> IF g1.needsRedraw THEN PaintedCells(g1) ELSE {},
                    togglePlayPause |-> 0]]

(***************************************************************************)
(* ThemeManager (assets/js/theme-toggle.js).  th: [attr, stored, checked,  *)
(* prefersDark]: the document element has the data-theme attribute;        *)
(* localStorage's theme item ("null" if absent); themeSwitch.checked; the  *)
(* media query (prefers-color-scheme: dark) matches.  A handler's value is *)
(* [theme, events]: the state it leaves and the detail.theme of the        *)
(* themeChanged events it dispatched.                                      *)
(***************************************************************************)
\* theme === 'light' || theme === 'dark'
ValidTheme(value) == value \in {"light", "dark"}

\* a value of localStorage.getItem('theme') that JavaScript takes as true
TruthyItem(value) == value \notin {"null", ""}

\* mutant of setTheme: an invalid theme is applied as light
setThemeDefaultsToLight(th, value) ==
    LET validated == IF ~ValidTheme(value) THEN "light" ELSE value
    IN  [theme |-> [th EXCEPT !.attr = (validated = "light")],
         events |-> <<validated>>]

\* setTheme(theme)
setTheme(th, value) ==
    LET validated == IF ~ValidTheme(value) THEN "dark" ELSE value
    IN  [theme |-> [th EXCEPT !.attr = (validated = "light")],
         events |-> <<validated>>]

\* updateToggle(theme)
updateToggle(th, value) ==
    IF ValidTheme(value) THEN [th EXCEPT !.checked = (value = "light")] ELSE th

\* saveTheme(theme)
saveTheme(th, value) ==
    IF ValidTheme(value) THEN [th EXCEPT !.stored = value] ELSE th

\* handleThemeToggle(): the change listener of the theme switch
handleThemeToggle(th) ==
    LET newTheme == IF th.checked THEN "light" ELSE "dark"
        set == setTheme(th, newTheme)
    IN  [theme |-> saveTheme(set.theme, newTheme), events |-> set.events]

\* mutant of handleSystemThemeChange: the stored preference is not consulted
handleSystemThemeChangeAlways(th, matches) ==
    LET systemTheme == IF matches THEN "dark" ELSE "light"
        set == setTheme(th, systemTheme)
    IN  [theme |-> updateToggle(set.theme, systemTheme), events |-> set.events]

\* handleSystemThemeChange(e): the change listener of the media query;
\* matches: e.matches
handleSystemThemeChange(th, matches) ==
    LET systemTheme == IF matches THEN "dark" ELSE "light"
        set == setTheme(th, systemTheme)
    IN  IF ~TruthyItem(th.stored)
        THEN [theme |-> updateToggle(set.theme, systemTheme), events |-> set.events]
        ELSE [theme |-> th, events |-> << >>]

\* ThemeManager.init()
ThemeManagerInit(th) ==
    LET savedTheme == th.stored
        initialTheme == IF TruthyItem(savedTheme) THEN savedTheme
                        ELSE IF th.prefersDark THEN "dark" ELSE "light"
        set == setTheme(th, initialTheme)
    IN  [theme |-> updateToggle(set.theme, initialTheme), events |-> set.events]

\* the block that runs while the script loads, before DOMContentLoaded
AntiFlash(th) ==
    LET applied == IF ValidTheme(th.stored) THEN th.stored
                   ELSE IF ~th.prefersDark THEN "light" ELSE "dark"
    IN  IF applied = "light" THEN [th EXCEPT !.attr = TRUE] ELSE th

\* updateThemeColors(): the theme the game caches, read from the attribute
updateThemeColors(g, th) ==
    [g EXCEPT !.currentTheme = IF th.attr THEN "light" ELSE "dark"]

\* this.boundThemeChange, the game's themeChanged listener
boundThemeChange(g, th) ==
    [updateThemeColors(g, th) EXCEPT !.needsRedraw = TRUE]

\* the game after the themeChanged events of a handler have been dispatched;
\* ls: the registered listeners
DispatchThemeChanged(g, ls, th, events) ==
    IF "themeChanged" \in ls /\ events # << >> THEN boundThemeChange(g, th) ELSE g

(***************************************************************************)
(* constructor, setupCanvas, init                                          *)
(***************************************************************************)
\* the canvas' classes and cursor, the grid-clickable classes, the button
\* icon, the speed slider's value and the speed label's text (in tenths, 10
\* for "1.0x") as the page's markup gives them before the script runs
InitialDom ==
    [canvasClasses |-> {}, cursor |-> "", gridClickable |-> {}, icon |-> ICON_PAUSE,
     slider |-> NumberToString(SLIDER_DEFAULT), speedLabel |-> 10]

\* the fields the constructor assigns before it calls init()
constructor ==
    [isPlaying |-> TRUE, rows |-> 0, cols |-> 0,
     bufs |-> [A |-> << >>, B |-> << >>], grid |-> "null", nextGrid |-> "null",
     animationId |-> "null", lastUpdateTime |-> 0,
     updateInterval |-> Ratio(INITIAL_UPDATE_INTERVAL, 1),
     needsRedraw |-> TRUE, gridChanged |-> FALSE,
     wasPlaying |-> "undefined", currentTheme |-> "dark"]

\* the grid dimensions setupCanvas and the resize timer compute from the
\* canvas' pixel size
GridDimensions(g, width, height) ==
    [g EXCEPT !.cols = width \div CELL_SIZE, !.rows = height \div CELL_SIZE]

\* the listeners registered by setupCanvas and setupEventListeners
EarlyListeners == {"resize", "button", "input", "click", "keydown"}

\* init(): the state it leaves, the frame it requests, the listeners it has
\* registered and the exception it raises, if any
init(g, d, width, height, w, th) ==
    LET g1 == initializeGrid(GridDimensions(g, width, height))
        loaded == loadInitialPattern(g1, w)
        themed == updateThemeColors(loaded.game, th)
        d1 == [d EXCEPT !.canvasClasses = @ \cup {CLASS_PLAYING},
                        !.cursor = CURSOR_DEFAULT]
        looped == gameLoop([themed EXCEPT !.needsRedraw = TRUE], 0)
    IN  IF loaded.error # "none"
        THEN [game |-> loaded.game, dom |-> d, frame |-> FALSE,
              listeners |-> EarlyListeners, error |-> loaded.error,
              calls |-> [updateGrid |-> 0, redraw |-> 0, painted |-> {},
                         togglePlayPause |-> 0]]
        ELSE [game |-> looped.game, dom |-> d1, frame |-> TRUE,
              listeners |-> EarlyListeners \cup {"themeChanged"},
              error |-> "none", calls |-> looped.calls]

\* the body of the debounced resize timer
resizeCanvas(g, width, height) ==
    LET g1 == GridDimensions(g, width, height)
        g2 == IF g.grid # "null"
              THEN transferGridData(initializeGrid(g1), ActiveCells(g))
              ELSE g1
    IN  [g2 EXCEPT !.needsRedraw = TRUE]

(***************************************************************************)
(* destroy, the visibilitychange listener                                  *)
(***************************************************************************)
\* mutant of destroy: the pending animation frame is not cancelled
destroyNoCancel(g, fr, ls) ==
    [game |-> [g EXCEPT !.grid = "null", !.nextGrid = "null",
                        !.bufs = [A |-> << >>, B |-> << >>]],
     frame |-> fr,
     listeners |-> ls \ {"resize", "themeChanged"}]

\* destroy(): cancels the pending frame if animationId is set, removes the
\* resize and themeChanged listeners and drops both grids (the arrays become
\* unreachable).  fr: a frame is pending; ls: the registered listeners.
destroy(g, fr, ls) ==
    [game |-> [g EXCEPT !.grid = "null", !.nextGrid = "null",
                        !.bufs = [A |-> << >>, B |-> << >>]],
     frame |-> IF g.animationId # "null" THEN FALSE ELSE fr,
     listeners |-> ls \ {"resize", "themeChanged"}]

\* mutant of visibilitychange: a hidden notification toggles a paused game too
visibilitychangeAlwaysPauses(g, d, registered, hidden) ==
    IF ~registered THEN [game |-> g, dom |-> d, toggles |-> 0]
    ELSE IF hidden
    THEN LET g1 == [g EXCEPT !.wasPlaying = JsBool(g.isPlaying)]
             r == togglePlayPause(g1, d)
         IN  [game |-> r.game, dom |-> r.dom, toggles |-> 1]
    ELSE LET r == togglePlayPause(g, d)
         IN  IF Truthy(g.wasPlaying) /\ ~g.isPlaying
             THEN [game |-> r.game, dom |-> r.dom, toggles |-> 1]
             ELSE [game |-> g, dom |-> d, toggles |-> 0]

\* mutant of visibilitychange: the page resumes whatever the saved state was
visibilitychangeAlwaysResumes(g, d, registered, hidden) ==
    IF ~registered THEN [game |-> g, dom |-> d, toggles |-> 0]
    ELSE IF hidden
    THEN LET g1 == [g EXCEPT !.wasPlaying = JsBool(g.isPlaying)]
             r == togglePlayPause(g1, d)
         IN  IF g1.isPlaying
             THEN [game |-> r.game, dom |-> r.dom, toggles |-> 1]
             ELSE [game |-> g1, dom |-> d, toggles |-> 0]
    ELSE LET r == togglePlayPause(g, d)
         IN  IF ~g.isPlaying
             THEN [game |-> r.game, dom |-> r.dom, toggles |-> 1]
             ELSE [game |-> g, dom |-> d, toggles |-> 0]

\* the visibilitychange listener; registered: window.conwayGame is set;
\* hidden: document.hidden.  toggles counts its togglePlayPause() calls.
visibilitychange(g, d, registered, hidden) ==
    IF ~registered THEN [game |-> g, dom |-> d, toggles |-> 0]
    ELSE IF hidden
    THEN LET g1 == [g EXCEPT !.wasPlaying = JsBool(g.isPlaying)]
             r == togglePlayPause(g1, d)
         IN  IF g1.isPlaying
             THEN [game |-> r.game, dom |-> r.dom, toggles |-> 1]
             ELSE [game |-> g1, dom |-> d, toggles |-> 0]
    ELSE LET r == togglePlayPause(g, d)
         IN  IF Truthy(g.wasPlaying) /\ ~g.isPlaying
             THEN [game |-> r.game, dom |-> r.dom, toggles |-> 1]
             ELSE [game |-> g, dom |-> d, toggles |-> 0]

(***************************************************************************)
(* History                                                                 *)
(***************************************************************************)
\* the fields of a state that the properties of the next handler refer to
Snapshot(g, d) ==
    [rows |-> g.rows, cols |-> g.cols,
     cells |-> IF g.grid = "null" THEN << >> ELSE ActiveCells(g),
     scratch |-> IF g.nextGrid = "null" THEN << >> ELSE ScratchCells(g),
     isPlaying |-> g.isPlaying, needsRedraw |-> g.needsRedraw,
     updateInterval |-> g.updateInterval,
     lastUpdateTime |-> g.lastUpdateTime, dom |-> d]

NoCalls ==
    [updateGrid |-> 0, redraw |-> 0, painted |-> {}, togglePlayPause |-> 0,
     events |-> << >>]

(***************************************************************************)
(* The page: construction on DOMContentLoaded, then the handlers           *)
(***************************************************************************)
\* the period of the display's frames, in milliseconds
FrameMs == INITIAL_UPDATE_INTERVAL \div 2

MaxTime == MaxFrames * FrameMs

\* pixel sizes and click offsets: one per cell index 0..cells, alternately the
\* first and the last pixel of the cell
Pixels(cells) ==
    {k * CELL_SIZE + (IF k % 2 = 0 THEN 0 ELSE CELL_SIZE - 1) : k \in 0..cells}

\* no destroy() call, no hidden notification yet
NoLife ==
    [destroyCalls |-> 0, playingAtHide |-> "none", toggledWhileHidden |-> FALSE,
     switchUsed |-> FALSE]

\* the theme of a page without a stored theme on a system that prefers dark,
\* after the block that runs at load and ThemeManager.init()
SettledDarkTheme ==
    [attr |-> FALSE, stored |-> "null", checked |-> FALSE, prefersDark |-> TRUE]

\* DOMContentLoaded: new ConwayGameOfLife() on a canvas of one of the given
\* sizes, in a document whose `hidden` is one of `hiddens`; window.conwayGame
\* is assigned only if the constructor returns
PageInitWith(widths, heights, hiddens, sliders) ==
    \E width \in widths, height \in heights, hidden \in hiddens, slider \in sliders :
      \E w \in RandomOutcomes(GridDimensions(constructor, width, height),
                              INITIAL_RANDOM_CELLS) :
        LET r == init(constructor, [InitialDom EXCEPT !.slider = slider],
                      width, height, w, SettledDarkTheme)
        IN  /\ game = r.game
            /\ dom = r.dom
            /\ frame = r.frame
            /\ listeners = r.listeners
            /\ page = [conwayGame |-> r.error = "none", hidden |-> hidden]
            /\ theme = SettledDarkTheme
            /\ life = NoLife
            /\ result = "none"
            /\ error = r.error
            /\ calls = r.calls
            /\ now = 0
            /\ resizeTimeout = FALSE
            /\ seed = [kind |-> "page"]
            /\ gen = 0
            /\ lastOp = "init"
            /\ pre = Snapshot(constructor, [InitialDom EXCEPT !.slider = slider])
            /\ args = [width |-> width, height |-> height]

PageInit(widths, heights, hiddens) ==
    PageInitWith(widths, heights, hiddens, {InitialDom.slider})

Init == PageInit(Pixels(MaxCols), Pixels(MaxRows), {FALSE})

\* the browser delivers the pending animation frame
Tick ==
    \E dt \in {FrameMs} :
        /\ frame
        /\ now + dt <= MaxTime
        /\ LET r == gameLoop(game, now + dt)
           IN  /\ game' = r.game
               /\ calls' = r.calls
        /\ now' = now + dt
        /\ lastOp' = "gameLoop"
        /\ pre' = Snapshot(game, dom)
        /\ args' = [currentTime |-> now + dt]
        /\ error' = "none"
        /\ UNCHANGED <<dom, frame, resizeTimeout, listeners, page, theme, life, seed, gen, result>>

\* a window resize event: the listener restarts the debounce timer
ResizeEvent ==
    /\ "resize" \in listeners
    /\ resizeTimeout' = TRUE
    /\ lastOp' = "resize"
    /\ pre' = Snapshot(game, dom)
    /\ args' = "none"
    /\ calls' = NoCalls
    /\ error' = "none"
    /\ UNCHANGED <<game, dom, now, frame, listeners, page, theme, life, seed, gen, result>>

\* the debounce timer fires, the canvas having one of the given sizes
ResizeTimerOn(widths, heights) ==
    \E width \in widths, height \in heights :
        /\ resizeTimeout
        /\ game' = resizeCanvas(game, width, height)
        /\ resizeTimeout' = FALSE
        /\ lastOp' = "resizeCanvas"
        /\ pre' = Snapshot(game, dom)
        /\ args' = "none"
        /\ calls' = NoCalls
        /\ error' = "none"
        /\ UNCHANGED <<dom, now, frame, listeners, page, theme, life, seed, gen, result>>

ResizeTimer == ResizeTimerOn(Pixels(MaxCols), Pixels(MaxRows))

\* click offsets <<x, y>>: one in every cell up to MaxRows x MaxCols, and one
\* left of, one above and one left of and above the canvas' rectangle
ClickOffsets ==
    (Pixels(MaxCols) \X Pixels(MaxRows)) \cup {<<-1, 0>>, <<0, -1>>, <<-1, -1>>}

\* a click on the canvas at one of the given offsets (x, y)
CanvasClickAt(offsets) ==
    \E offset \in offsets :
      LET x == offset[1]
          y == offset[2]
      IN
        /\ "click" \in listeners
        /\ game' = handleCanvasClick(game, x, y)
        /\ lastOp' = "handleCanvasClick"
        /\ pre' = Snapshot(game, dom)
        /\ args' = [row |-> CellOf(y), col |-> CellOf(x)]
        /\ calls' = NoCalls
        /\ error' = handleCanvasClickError(game, x, y)
        /\ UNCHANGED <<dom, now, frame, resizeTimeout, listeners, page, theme, life, seed, gen, result>>

CanvasClick == CanvasClickAt(ClickOffsets)

\* a click on the play/pause button, or the Space key
PlayPause ==
    /\ "button" \in listeners \/ "keydown" \in listeners
    /\ LET r == togglePlayPause(game, dom)
       IN  /\ game' = r.game
           /\ dom' = r.dom
    /\ life' = [life EXCEPT !.toggledWhileHidden = @ \/ page.hidden]
    /\ lastOp' = "togglePlayPause"
    /\ pre' = Snapshot(game, dom)
    /\ args' = "none"
    /\ calls' = [NoCalls EXCEPT !.togglePlayPause = 1]
    /\ error' = "none"
    /\ UNCHANGED <<now, frame, resizeTimeout, listeners, page, theme, seed, gen, result>>

Next == Tick \/ ResizeEvent \/ ResizeTimer \/ CanvasClick \/ PlayPause

Spec == Init /\ [][Next]_vars

(***************************************************************************)
(* The page's life: visibility changes and destroy(), on canvases of at    *)
(* most MaxLifeRows x MaxLifeCols cells                                    *)
(***************************************************************************)
\* the document becomes hidden
Hidden ==
    /\ ~page.hidden
    /\ LET r == visibilitychange(game, dom, page.conwayGame, TRUE)
       IN  /\ game' = r.game
           /\ dom' = r.dom
           /\ calls' = [NoCalls EXCEPT !.togglePlayPause = r.toggles]
    /\ page' = [page EXCEPT !.hidden = TRUE]
    /\ life' = [life EXCEPT !.playingAtHide = JsBool(game.isPlaying),
                            !.toggledWhileHidden = FALSE]
    /\ lastOp' = "hidden"
    /\ pre' = Snapshot(game, dom)
    /\ args' = "none"
    /\ error' = "none"
    /\ UNCHANGED <<now, frame, resizeTimeout, listeners, theme, seed, gen, result>>

\* the document becomes visible
Visible ==
    /\ page.hidden
    /\ LET r == visibilitychange(game, dom, page.conwayGame, FALSE)
       IN  /\ game' = r.game
           /\ dom' = r.dom
           /\ calls' = [NoCalls EXCEPT !.togglePlayPause = r.toggles]
    /\ page' = [page EXCEPT !.hidden = FALSE]
    /\ lastOp' = "visible"
    /\ pre' = Snapshot(game, dom)
    /\ args' = "none"
    /\ error' = "none"
    /\ UNCHANGED <<now, frame, resizeTimeout, listeners, life, theme, seed, gen, result>>

\* a call of destroy()
Destroy ==
    /\ life.destroyCalls < MaxDestroyCalls
    /\ LET r == destroy(game, frame, listeners)
       IN  /\ game' = r.game
           /\ frame' = r.frame
           /\ listeners' = r.listeners
    /\ life' = [life EXCEPT !.destroyCalls = @ + 1]
    /\ lastOp' = "destroy"
    /\ pre' = Snapshot(game, dom)
    /\ args' = "none"
    /\ calls' = NoCalls
    /\ error' = "none"
    /\ UNCHANGED <<dom, now, resizeTimeout, page, theme, seed, gen, result>>

LifeInit == PageInit(Pixels(MaxLifeCols), Pixels(MaxLifeRows), BOOLEAN)

LifeResizeTimer == ResizeTimerOn(Pixels(MaxLifeCols), Pixels(MaxLifeRows))

LifeNext ==
    Tick \/ PlayPause \/ ResizeEvent \/ LifeResizeTimer \/ Hidden \/ Visible \/ Destroy

SpecLife == LifeInit /\ [][LifeNext]_vars

(***************************************************************************)
(* The theme: the page loads with any stored theme item, colour scheme and *)
(* markup of the switch and the attribute; then the switch, the system's   *)
(* colour scheme and direct calls of setTheme and saveTheme                *)
(***************************************************************************)
\* values of localStorage.getItem('theme'): absent, valid, empty, other
StoredItems == {"null", "light", "dark", "", "auto"}

\* arguments of direct setTheme / saveTheme calls
ThemeArgs == {"light", "dark", "Light", "auto", "", "undefined"}

\* the fields of the theme a handler started from
ThemeSnapshot == [theme |-> theme, needsRedraw |-> game.needsRedraw]

\* page load: the block at script load, then on DOMContentLoaded the game's
\* and the ThemeManager's constructors, in either order
ThemeInit ==
    \E stored \in StoredItems, prefersDark \in BOOLEAN, checked \in BOOLEAN,
       attr \in BOOLEAN, gameFirst \in BOOLEAN :
      \E width \in Pixels(MaxLifeCols), height \in Pixels(MaxLifeRows) :
        \E w \in RandomOutcomes(GridDimensions(constructor, width, height),
                                INITIAL_RANDOM_CELLS) :
          LET markup == [attr |-> attr, stored |-> stored, checked |-> checked,
                         prefersDark |-> prefersDark]
              flashed == AntiFlash(markup)
              managed == ThemeManagerInit(flashed)
              r == init(constructor, InitialDom, width, height, w,
                        IF gameFirst THEN flashed ELSE managed.theme)
          IN  /\ game = IF gameFirst
                        THEN DispatchThemeChanged(r.game, r.listeners,
                                                  managed.theme, managed.events)
                        ELSE r.game
              /\ dom = r.dom
              /\ frame = r.frame
              /\ listeners = r.listeners
              /\ page = [conwayGame |-> r.error = "none", hidden |-> FALSE]
              /\ theme = managed.theme
              /\ life = NoLife
              /\ result = "none"
              /\ error = r.error
              /\ calls = [NoCalls EXCEPT !.events = managed.events]
              /\ now = 0
              /\ resizeTimeout = FALSE
              /\ seed = [kind |-> "theme", stored |-> stored, markup |-> markup,
                         flashed |-> flashed]
              /\ gen = 0
              /\ lastOp = "ThemeManager.init"
              /\ pre = [theme |-> flashed, needsRedraw |-> r.game.needsRedraw]
              /\ args = "none"

\* what a theme handler with value r leaves behind
ThemeHandled(r, op, input) ==
    /\ theme' = r.theme
    /\ game' = DispatchThemeChanged(game, listeners, r.theme, r.events)
    /\ calls' = [NoCalls EXCEPT !.events = r.events]
    /\ lastOp' = op
    /\ pre' = ThemeSnapshot
    /\ args' = input
    /\ error' = "none"
    /\ UNCHANGED <<dom, now, frame, resizeTimeout, listeners, page, seed, gen, result>>

\* the user flips the theme switch
ThemeToggle ==
    /\ ThemeHandled(handleThemeToggle([theme EXCEPT !.checked = ~theme.checked]),
                    "handleThemeToggle", "none")
    /\ life' = [life EXCEPT !.switchUsed = TRUE]

\* the system's colour scheme changes
SystemThemeChange ==
    \E matches \in BOOLEAN :
        /\ matches # theme.prefersDark
        /\ ThemeHandled(handleSystemThemeChange([theme EXCEPT !.prefersDark = matches],
                                                matches),
                        "handleSystemThemeChange", [matches |-> matches])
        /\ UNCHANGED life

\* a direct call of setTheme(theme)
SetThemeCall ==
    \E value \in ThemeArgs :
        /\ ThemeHandled(setTheme(theme, value), "setTheme", [theme |-> value])
        /\ UNCHANGED life

\* a direct call of saveTheme(theme)
SaveThemeCall ==
    \E value \in ThemeArgs :
        /\ ThemeHandled([theme |-> saveTheme(theme, value), events |-> << >>],
                        "saveTheme", [theme |-> value])
        /\ UNCHANGED life

ThemeNext == ThemeToggle \/ SystemThemeChange \/ SetThemeCall \/ SaveThemeCall

SpecTheme == ThemeInit /\ [][ThemeNext]_vars

(***************************************************************************)
(* updateGrid as a function: runs that start from a chosen grid and call   *)
(* updateGrid directly.  Every grid of true/false cells, with any content  *)
(* of the scratch array, is a state of the page: a paused game takes       *)
(* clicks on any cell, and a step leaves the old grid in the scratch array.*)
(***************************************************************************)
\* the grid of rows x cols cells whose live cells are those of `live`
GridOf(rows, cols, live) ==
    [i \in 0..(rows - 1) |-> [j \in 0..(cols - 1) |-> JsBool(<<i, j>> \in live)]]

\* every rows x cols grid of true/false cells
AllGrids(rows, cols) == [0..(rows - 1) -> [0..(cols - 1) -> {"true", "false"}]]

\* the canvas of a running game after init()
RunningDom ==
    [InitialDom EXCEPT !.canvasClasses = {CLASS_PLAYING}, !.cursor = CURSOR_DEFAULT]

\* a running game whose grid is m and whose scratch array is s
GameWith(rows, cols, m, s) ==
    [constructor EXCEPT !.rows = rows, !.cols = cols,
                        !.bufs = [A |-> m, B |-> s],
                        !.grid = "A", !.nextGrid = "B",
                        !.animationId = "frame", !.needsRedraw = FALSE]

\* what a run from a chosen grid starts with, apart from the grid
StartFrom(g, sd) ==
    /\ game = g
    /\ dom = RunningDom
    /\ now = 0
    /\ frame = TRUE
    /\ resizeTimeout = FALSE
    /\ listeners = EarlyListeners \cup {"themeChanged"}
    /\ page = [conwayGame |-> TRUE, hidden |-> FALSE]
    /\ theme = SettledDarkTheme
    /\ life = NoLife
    /\ result = "none"
    /\ seed = sd
    /\ gen = 0
    /\ lastOp = "init"
    /\ pre = Snapshot(g, RunningDom)
    /\ args = "none"
    /\ calls = NoCalls
    /\ error = "none"

\* the generations followed from a start
Generations(sd) == IF sd.kind = "grid" THEN StepGenerations ELSE MaxGenerations

\* a direct call of updateGrid()
UpdateGridCall ==
    /\ gen < Generations(seed)
    /\ game' = updateGrid(game)
    /\ gen' = gen + 1
    /\ lastOp' = "updateGrid"
    /\ pre' = Snapshot(game, dom)
    /\ args' = "none"
    /\ calls' = [NoCalls EXCEPT !.updateGrid = 1]
    /\ error' = "none"
    /\ UNCHANGED <<dom, now, frame, resizeTimeout, listeners, page, theme, life, seed, result>>

StepNext == UpdateGridCall

\* every grid of at most MaxStepCells cells, over a dead or a live scratch array
StepInit ==
    \E d \in {d \in (1..MaxStepCells) \X (1..MaxStepCells) : d[1] * d[2] <= MaxStepCells} :
      \E m \in AllGrids(d[1], d[2]), fill \in {"false", "true"} :
        StartFrom(GameWith(d[1], d[2], m, NewArray(d[1], NewArray(d[2], fill))),
                  [kind |-> "grid", scratch |-> fill])

SpecStep == StepInit /\ [][StepNext]_vars

\* the frame loop of a running game, started from every such grid, with the
\* play/pause button
LoopNext == Tick \/ PlayPause

SpecLoop == StepInit /\ [][LoopNext]_vars

(***************************************************************************)
(* sliderToSpeed as a function: direct calls with every slider value       *)
(***************************************************************************)
\* the values of the speed slider
SliderValues == SLIDER_MIN..SLIDER_MAX

\* a direct call of sliderToSpeed(sliderValue)
SliderToSpeedCall ==
    \E sliderValue \in SliderValues :
        /\ result' = sliderToSpeed(sliderValue)
        /\ lastOp' = "sliderToSpeed"
        /\ pre' = Snapshot(game, dom)
        /\ args' = [sliderValue |-> sliderValue]
        /\ calls' = NoCalls
        /\ error' = "none"
        /\ UNCHANGED <<game, dom, now, frame, resizeTimeout, listeners, page, theme, life,
                       seed, gen>>

SpeedInit ==
    StartFrom(GameWith(1, 1, GridOf(1, 1, {}), GridOf(1, 1, {})), [kind |-> "speed"])

SpeedNext == SliderToSpeedCall

SpecSpeed == SpeedInit /\ [][SpeedNext]_vars

(***************************************************************************)
(* Events after destroy(): the page of SpecLife with canvas clicks and the *)
(* theme switch                                                            *)
(***************************************************************************)
\* click offsets: one in every cell up to MaxLifeRows x MaxLifeCols, and one
\* left of, one above and one left of and above the canvas' rectangle
LifeClickOffsets ==
    (Pixels(MaxLifeCols) \X Pixels(MaxLifeRows)) \cup {<<-1, 0>>, <<0, -1>>, <<-1, -1>>}

LifeCanvasClick == CanvasClickAt(LifeClickOffsets)

DestroyedInit == PageInit(Pixels(MaxLifeCols), Pixels(MaxLifeRows), {FALSE})

DestroyedNext == LifeNext \/ LifeCanvasClick \/ ThemeToggle

SpecDestroyed == DestroyedInit /\ [][DestroyedNext]_vars

(***************************************************************************)
(* The frame loop without an end: the page of SpecLife without destroy()   *)
(* and the visibility listener, with clicks and the theme switch.  The     *)
(* timestamps count only through currentTime - lastUpdateTime, so once the *)
(* clock has reached MaxTime a frame is delivered with the origin of time  *)
(* moved by one frame period.  The browser delivers every frame requested. *)
(***************************************************************************)
\* the pending animation frame is delivered after the clock reached MaxTime
LateTick ==
    /\ frame
    /\ now + FrameMs > MaxTime
    /\ LET shifted == [game EXCEPT !.lastUpdateTime = Max(@ - FrameMs, 0)]
           r == gameLoop(shifted, now)
       IN  /\ game' = r.game
           /\ calls' = r.calls
           /\ pre' = Snapshot(shifted, dom)
    /\ lastOp' = "gameLoop"
    /\ args' = [currentTime |-> now]
    /\ error' = "none"
    /\ UNCHANGED <<dom, now, frame, resizeTimeout, listeners, page, theme, life, seed, gen,
                   result>>

LiveInit == PageInit(Pixels(MaxLifeCols), Pixels(MaxLifeRows), {FALSE})

LiveNext ==
    \/ Tick
    \/ LateTick
    \/ PlayPause
    \/ LifeCanvasClick
    \/ ResizeEvent
    \/ LifeResizeTimer
    \/ ThemeToggle

SpecLive == LiveInit /\ [][LiveNext]_vars /\ WF_vars(Tick \/ LateTick)

(***************************************************************************)
(* The initial pattern: the page loads with a canvas one cell high and up  *)
(* to MaxLoadCols cells wide, on which the centred pattern has a live cell *)
(***************************************************************************)
LoadInit ==
    PageInit(Pixels(MaxLoadCols), Pixels(MaxLifeRows), {FALSE})

LoadNext == Tick \/ PlayPause

SpecLoad == LoadInit /\ [][LoadNext]_vars

(***************************************************************************)
(* The speed slider: the page loads with the slider at any value of its    *)
(* range; then input events with any of the strings below as the value     *)
(***************************************************************************)
\* values of e.target.value that parse to no number or to one out of range,
\* or that carry more than the digits of a number
OddInputs ==
    { << >>, <<"a">>, <<"-">>, <<"-", "1">>, <<"-", "0">>, <<"1", "0", "1">>,
      <<"1", "0", "0", "0">>, <<"5", "0", ".", "5">>, <<"1", "e", "2">>,
      <<" ", "7">>, <<"+", "1", "0", "0">>, <<".", "5">> }

\* the slider values an input event carries: the ends of the range, the
\* default and their neighbours
InputNumbers ==
    {SLIDER_MIN, SLIDER_MIN + 1, SLIDER_DEFAULT - 1, SLIDER_DEFAULT, SLIDER_DEFAULT + 1,
     SLIDER_MAX - 1, SLIDER_MAX}

InputValues == {NumberToString(v) : v \in InputNumbers} \cup OddInputs

\* an input event of the speed slider whose target has the value `value`
SpeedInput ==
    \E value \in InputValues :
        /\ "input" \in listeners
        /\ LET r == speedInput(game, [dom EXCEPT !.slider = value])
           IN  /\ game' = r.game
               /\ dom' = r.dom
        /\ lastOp' = "speedInput"
        /\ pre' = Snapshot(game, dom)
        /\ args' = [value |-> value]
        /\ calls' = NoCalls
        /\ error' = "none"
        /\ UNCHANGED <<now, frame, resizeTimeout, listeners, page, theme, life, seed, gen,
                       result>>

InputInit ==
    PageInitWith(Pixels(MaxLifeCols), Pixels(MaxLifeRows), {FALSE},
                 {NumberToString(v) : v \in SliderValues})

InputNext == SpeedInput

SpecInput == InputInit /\ [][InputNext]_vars

\* the cells of the three patterns placed at (r, c), indices modulo the grid size
PatternCells(kind, rows, cols, r, c) ==
    CASE kind = "single" -> {<<r, c>>}
      [] kind = "block" -> {<<r, c>>, <<r, (c + 1) % cols>>,
                            <<(r + 1) % rows, c>>, <<(r + 1) % rows, (c + 1) % cols>>}
      [] kind = "blinker" -> {<<r, (c - 1 + cols) % cols>>, <<r, c>>, <<r, (c + 1) % cols>>}
      [] kind = "vertical" -> {<<(r - 1 + rows) % rows, c>>, <<r, c>>, <<(r + 1) % rows, c>>}

\* the grid sizes a pattern is placed on: a block needs two rows and columns,
\* a blinker three columns
Fits(kind, rows, cols) ==
    CASE kind = "single" -> TRUE
      [] kind = "block" -> rows >= 2 /\ cols >= 2
      [] kind = "blinker" -> cols >= 3

\* one pattern, alone on a grid up to MaxPatRows x MaxPatCols, at every placement
PatternInit ==
    \E rows \in 1..MaxPatRows, cols \in 1..MaxPatCols :
      \E kind \in {"single", "block", "blinker"} :
        \E r \in 0..(rows - 1), c \in 0..(cols - 1) :
          /\ Fits(kind, rows, cols)
          /\ StartFrom(GameWith(rows, cols,
                                GridOf(rows, cols, PatternCells(kind, rows, cols, r, c)),
                                NewArray(rows, NewArray(cols, "false"))),
                       [kind |-> kind, r |-> r, c |-> c])

SpecPatterns == PatternInit /\ [][StepNext]_vars

(***************************************************************************)
(* Properties of updateGrid                                                *)
(***************************************************************************)
\* the eight offsets (dr, dc) of a cell's neighbours
Offsets == {d \in {-1, 0, 1} \X {-1, 0, 1} : d # <<0, 0>>}

\* how many of the eight wrapped positions around (i, j) hold a live cell
WrappedLive(cells, rows, cols, i, j) ==
    Cardinality({d \in Offsets :
                   Truthy(cells[(i + d[1]) % rows][(j + d[2]) % cols])})

\* the live cells of the active grid
LiveCells(g) ==
    {<<i, j>> \in (0..(g.rows - 1)) \X (0..(g.cols - 1)) :
        Truthy(MatGet(ActiveCells(g), i, j))}

\* the live cells of the grid the last handler started from
LiveBefore ==
    {<<i, j>> \in (0..(pre.rows - 1)) \X (0..(pre.cols - 1)) :
        Truthy(MatGet(pre.cells, i, j))}

\* C1: after one updateGrid() a cell is alive iff, with n the number of live
\* cells among its eight wrapped neighbour positions in the grid before the
\* step, it was alive and n is 2 or 3, or it was dead and n is 3.
C1_ConwayRule ==
    lastOp = "updateGrid" =>
        \A i \in 0..(game.rows - 1), j \in 0..(game.cols - 1) :
            LET n == WrappedLive(pre.cells, pre.rows, pre.cols, i, j)
                was == <<i, j>> \in LiveBefore
            IN  <<i, j>> \in LiveCells(game)
                    <=> ((was /\ n \in {2, 3}) \/ (~was /\ n = 3))

\* C1 witness: a step on a grid of three rows and columns in which a cell in
\* the first row and column is born and another cell survives.
C1_Witness ==
    /\ lastOp = "updateGrid"
    /\ game.rows >= 3 /\ game.cols >= 3
    /\ <<0, 0>> \in LiveCells(game) \ LiveBefore
    /\ LiveCells(game) \cap LiveBefore # {}

\* C2 as claimed: on every grid with rows >= 1 and cols >= 1, a cell that is
\* the only live cell is dead after one updateGrid().
C2_SingleCellDies_AsClaimed ==
    (seed.kind = "single" /\ gen = 1) => <<seed.r, seed.c>> \notin LiveCells(game)

\* C2: on every grid with rows >= 2 and cols >= 2, and on the grid of one
\* cell, a cell that is the only live cell is dead after one updateGrid().
C2_SingleCellDies ==
    (/\ seed.kind = "single" /\ gen = 1
     /\ (game.rows >= 2 /\ game.cols >= 2) \/ (game.rows = 1 /\ game.cols = 1))
        => <<seed.r, seed.c>> \notin LiveCells(game)

\* C2 witness: the step taken from a single live cell on a grid with at least
\* two rows and columns.
C2_Witness ==
    /\ seed.kind = "single" /\ gen = 1 /\ lastOp = "updateGrid"
    /\ game.rows >= 2 /\ game.cols >= 2
    /\ LiveBefore = {<<seed.r, seed.c>>}

\* the grid holds exactly the given pattern at the seed's placement
Shows(kind) ==
    LiveCells(game) = PatternCells(kind, game.rows, game.cols, seed.r, seed.c)

\* C3 as claimed: on every grid with rows >= 2 and cols >= 2 a lone 2x2 block
\* is unchanged after each updateGrid() call, and each call leaves gridChanged
\* false.
C3_BlockStable_AsClaimed ==
    (seed.kind = "block" /\ gen >= 1) => (Shows("block") /\ ~game.gridChanged)

\* C3: on every grid with rows >= 3 and cols >= 3 a lone 2x2 block is
\* unchanged after each updateGrid() call, and each call leaves gridChanged
\* false.
C3_BlockStable ==
    (seed.kind = "block" /\ gen >= 1 /\ game.rows >= 3 /\ game.cols >= 3)
        => (Shows("block") /\ ~game.gridChanged)

\* C3 witness: the fifth consecutive step from a block that wraps around both
\* edges of the grid.
C3_Witness ==
    /\ seed.kind = "block" /\ gen >= 5 /\ lastOp = "updateGrid"
    /\ game.rows >= 3 /\ game.cols >= 3
    /\ seed.r = game.rows - 1 /\ seed.c = game.cols - 1

\* C4: on a grid with rows >= 5 and cols >= 5 the three cells (r,c-1), (r,c),
\* (r,c+1) become exactly (r-1,c), (r,c), (r+1,c) after one updateGrid() and
\* exactly the original three after two.
C4_Blinker ==
    (seed.kind = "blinker" /\ game.rows >= 5 /\ game.cols >= 5)
        => /\ gen = 1 => Shows("vertical")
           /\ gen = 2 => Shows("blinker")

\* C4 witness: the second step from a blinker centred in the first column of
\* the first row, so that it wraps around the grid's edges in both phases.
C4_Witness ==
    /\ seed.kind = "blinker" /\ gen = 2 /\ lastOp = "updateGrid"
    /\ game.rows >= 5 /\ game.cols >= 5
    /\ seed.r = 0 /\ seed.c = 0
    /\ LiveBefore = PatternCells("vertical", game.rows, game.cols, 0, 0)

\* other contents of the scratch array of g: all dead, all alive, a copy of
\* the active grid, and g's own with its first cell inverted
ScratchAlternatives(g) ==
    {NewArray(g.rows, NewArray(g.cols, fill)) : fill \in {"false", "true"}}
    \cup {ActiveCells(g)}
    \cup {MatSet(ScratchCells(g), 0, 0, JsNot(MatGet(ScratchCells(g), 0, 0)))}

\* engine states with g's rows, cols and active grid, and other contents of
\* the scratch array, gridChanged, needsRedraw, isPlaying and lastUpdateTime
Variants(g) ==
    {[g EXCEPT !.bufs[g.nextGrid] = s, !.gridChanged = f, !.needsRedraw = f,
               !.isPlaying = ~f, !.lastUpdateTime = IF f THEN MaxTime ELSE 0] :
        s \in ScratchAlternatives(g), f \in BOOLEAN}

\* C5: engine states that agree on rows, cols and the active grid, whatever
\* their scratch array, gridChanged, needsRedraw, isPlaying and
\* lastUpdateTime, have equal active grids and equal gridChanged after one
\* updateGrid() each.
C5_StepReadsActiveGridOnly ==
    LET mine == updateGrid(game)
    IN  \A v \in Variants(game) :
            LET other == updateGrid(v)
            IN  /\ ActiveCells(other) = ActiveCells(mine)
                /\ other.gridChanged = mine.gridChanged

\* C5 witness: a step that changed cells, taken from a grid of three rows and
\* columns over a scratch array that was all alive, so that the step's result
\* differs from what the scratch array held.
C5_Witness ==
    /\ lastOp = "updateGrid" /\ seed.kind = "grid" /\ seed.scratch = "true"
    /\ game.rows >= 3 /\ game.cols >= 3
    /\ game.gridChanged
    /\ LiveCells(game) # (0..(game.rows - 1)) \X (0..(game.cols - 1))

(***************************************************************************)
(* Properties of the page's handlers                                       *)
(***************************************************************************)
\* the value of cell (i, j) of the grid the last handler started from
CellBefore(i, j) == MatGet(pre.cells, i, j)

\* C6 as claimed: after a resize every cell inside the overlap of the old and
\* the new size has the value it had in the old active grid, and every other
\* cell of the new active grid is dead.
C6_ResizeKeepsOverlap_AsClaimed ==
    (lastOp = "resizeCanvas" /\ game.grid # "null") =>
        /\ DOMAIN ActiveCells(game) = 0..(game.rows - 1)
        /\ \A i \in 0..(game.rows - 1) :
             /\ DOMAIN ActiveCells(game)[i] = 0..(game.cols - 1)
             /\ \A j \in 0..(game.cols - 1) :
                  IF i < Min(pre.rows, game.rows) /\ j < Min(pre.cols, game.cols)
                  THEN MatGet(ActiveCells(game), i, j) = CellBefore(i, j)
                  ELSE MatGet(ActiveCells(game), i, j) = "false"

\* the array m has exactly `rows` rows of exactly `cols` cells
HasShape(m, rows, cols) ==
    /\ DOMAIN m = 0..(rows - 1)
    /\ \A i \in DOMAIN m : DOMAIN m[i] = 0..(cols - 1)

\* C7 as claimed: while the grids exist, grid and nextGrid are two distinct
\* arrays and each has exactly `rows` rows of exactly `cols` cells.
C7_GridShape_AsClaimed ==
    (game.grid # "null" \/ game.nextGrid # "null") =>
        /\ game.grid # game.nextGrid
        /\ HasShape(ActiveCells(game), game.rows, game.cols)
        /\ HasShape(ScratchCells(game), game.rows, game.cols)

\* the last handler was a canvas click whose cell is outside the grid
ClickedOutside ==
    /\ lastOp = "handleCanvasClick"
    /\ ~(args.row >= 0 /\ args.row < pre.rows /\ args.col >= 0 /\ args.col < pre.cols)

C9_DoubleToggleRestores_AsClaimed ==
    LET once == togglePlayPause(game, dom)
        twice == togglePlayPause(once.game, once.dom)
    IN  /\ twice.game.isPlaying = game.isPlaying
        /\ twice.dom = dom

\* the live cells one generation after the grid the last handler started from
NextGeneration ==
    {<<i, j>> \in (0..(pre.rows - 1)) \X (0..(pre.cols - 1)) :
        LET n == WrappedLive(pre.cells, pre.rows, pre.cols, i, j)
        IN  IF <<i, j>> \in LiveBefore THEN n \in {2, 3} ELSE n = 3}

\* C10: a tick runs updateGrid() at most once, and runs it iff isPlaying was
\* true and currentTime - lastUpdateTime >= updateInterval; when it runs, the
\* grid advances by one generation and lastUpdateTime becomes currentTime, and
\* otherwise the grid and lastUpdateTime are unchanged.
C10_TickStepsWhenDue ==
    lastOp = "gameLoop" =>
        LET due == pre.isPlaying
                   /\ AtLeast(args.currentTime - pre.lastUpdateTime, game.updateInterval)
        IN  /\ calls.updateGrid = (IF due THEN 1 ELSE 0)
            /\ due => /\ game.lastUpdateTime = args.currentTime
                      /\ LiveCells(game) = NextGeneration
            /\ ~due => /\ game.lastUpdateTime = pre.lastUpdateTime
                       /\ ActiveCells(game) = pre.cells

\* C10 witness: a tick of a playing game, a full interval after the last
\* step, that changed the grid.
C10_Witness ==
    /\ lastOp = "gameLoop"
    /\ calls.updateGrid = 1
    /\ pre.isPlaying
    /\ game.lastUpdateTime = now /\ now > 0
    /\ LiveCells(game) # LiveBefore

\* C11: a tick applies its step before it decides on the redraw: a tick whose
\* step changed a cell repaints, every repaint of a tick paints exactly the
\* grid the tick ends with, and every tick ends with needsRedraw false.
C11_StepBeforeRedraw ==
    lastOp = "gameLoop" =>
        /\ (calls.updateGrid = 1 /\ LiveCells(game) # LiveBefore) => calls.redraw = 1
        /\ calls.redraw = 1 => calls.painted = LiveCells(game)
        /\ ~game.needsRedraw

\* C11 witness: a tick that started with needsRedraw false, stepped, changed
\* the grid and repainted a grid with a cell born and a cell surviving.
C11_Witness ==
    /\ lastOp = "gameLoop"
    /\ LiveCells(game) \ LiveBefore # {}
    /\ LiveCells(game) \cap LiveBefore # {}
    /\ ~pre.needsRedraw
    /\ calls.updateGrid = 1 /\ calls.redraw = 1
    /\ LiveCells(game) # LiveBefore
    /\ calls.painted # {}

(***************************************************************************)
(* Properties of the visibilitychange listener and of destroy              *)
(***************************************************************************)
\* C12 as claimed, of the game the page holds in window.conwayGame: a page
\* hidden while the game is Playing leaves the game Paused, and when the page
\* next becomes visible the game is Playing iff it was Playing when the page
\* became hidden, whatever toggles came between.
C12_HiddenPausesVisibleRestores_AsClaimed ==
    page.conwayGame =>
        /\ (lastOp = "hidden" /\ pre.isPlaying) => ~game.isPlaying
        /\ (lastOp = "visible" /\ life.playingAtHide # "none")
              => (game.isPlaying <=> life.playingAtHide = "true")

\* C12, of the game the page holds in window.conwayGame: a page hidden while
\* the game is Playing leaves the game Paused; when the page next becomes visible the game is
\* Playing if it was Playing when the page became hidden, whatever toggles
\* came between, and if it was Paused then, the visible notification leaves
\* the playback state as it found it.
C12_HiddenPausesVisibleResumes ==
    page.conwayGame =>
        /\ (lastOp = "hidden" /\ pre.isPlaying) => ~game.isPlaying
        /\ (lastOp = "visible" /\ life.playingAtHide = "true") => game.isPlaying
        /\ (lastOp = "visible" /\ life.playingAtHide = "false")
              => game.isPlaying = pre.isPlaying

\* C12 witness: the page became visible with the game paused, after it was
\* hidden while Playing and the user toggled the game while it was hidden.
C12_Witness ==
    /\ page.conwayGame
    /\ lastOp = "visible"
    /\ life.playingAtHide = "true" /\ life.toggledWhileHidden
    /\ ~pre.isPlaying /\ game.isPlaying

\* the part of C13 about the listener's calls: a hidden notification received
\* while Paused calls togglePlayPause() not at all, and a visible notification
\* calls it at most once, and only if the game was Playing at the latest
\* hidden notification and is Paused
NoRedundantFlip ==
    /\ (lastOp = "hidden" /\ ~pre.isPlaying) => calls.togglePlayPause = 0
    /\ lastOp = "visible" =>
          /\ calls.togglePlayPause <= 1
          /\ calls.togglePlayPause = 1
                => (life.playingAtHide = "true" /\ ~pre.isPlaying)

\* C13 as claimed: no redundant flip, and a game that was Paused when the
\* page became hidden is Paused after the page became visible.
C13_NoRedundantFlip_AsClaimed ==
    /\ NoRedundantFlip
    /\ (lastOp = "visible" /\ life.playingAtHide = "false") => ~game.isPlaying

\* C13: no redundant flip, and a game that was Paused when the page became
\* hidden and was not toggled by the user while it was hidden is Paused after
\* the page became visible.
C13_NoRedundantFlip ==
    /\ NoRedundantFlip
    /\ (lastOp = "visible" /\ life.playingAtHide = "false" /\ ~life.toggledWhileHidden)
          => ~game.isPlaying

\* C13 witness: the page became visible again around a game that was Paused
\* when it was hidden and was left alone, and the listener did not toggle it.
C13_Witness ==
    /\ page.conwayGame
    /\ lastOp = "visible"
    /\ life.playingAtHide = "false" /\ ~life.toggledWhileHidden
    /\ game.wasPlaying = "false"
    /\ calls.togglePlayPause = 0 /\ ~game.isPlaying

\* C14: once destroy() has been called, no tick runs, no frame is pending and
\* grid and nextGrid are null; a further destroy() call raises no error and
\* changes nothing.
C14_DestroyStopsTheLoop ==
    life.destroyCalls >= 1 =>
        /\ lastOp # "gameLoop"
        /\ ~frame
        /\ game.grid = "null" /\ game.nextGrid = "null"
        /\ lastOp = "destroy" => error = "none"
        /\ LET again == destroy(game, frame, listeners)
           IN  /\ again.game = game
               /\ again.frame = frame
               /\ again.listeners = listeners

\* C14 witness: a second destroy() call, on a game that was running on a
\* grid of at least one cell when it was destroyed.
C14_Witness ==
    /\ lastOp = "destroy"
    /\ life.destroyCalls = 2
    /\ page.conwayGame
    /\ game.rows >= 1 /\ game.cols >= 1
    /\ game.animationId = "frame"

(***************************************************************************)
(* Properties of sliderToSpeed                                             *)
(***************************************************************************)
\* C15: sliderToSpeed(50) is 1.0, sliderToSpeed(0) is 0.1 and
\* sliderToSpeed(100) is 10.0, every result for a slider value in 0..100 lies
\* in [0.1, 10], and sliderToSpeed is strictly increasing over 0..100.
C15_SliderToSpeed ==
    lastOp = "sliderToSpeed" =>
        /\ args.sliderValue = SLIDER_DEFAULT => result = SpeedUnit
        /\ args.sliderValue = SLIDER_MIN => result = SpeedUnit \div 10
        /\ args.sliderValue = SLIDER_MAX => result = 10 * SpeedUnit
        /\ result >= SpeedUnit \div 10 /\ result <= 10 * SpeedUnit
        /\ \A lower \in SLIDER_MIN..(args.sliderValue - 1) :
              sliderToSpeed(lower) < result

\* C15 witness: the call with the slider one above its default returned more
\* than 1.0 and less than 10.
C15_Witness ==
    /\ lastOp = "sliderToSpeed"
    /\ args.sliderValue = SLIDER_DEFAULT + 1
    /\ result > SpeedUnit /\ result < 10 * SpeedUnit

(***************************************************************************)
(* Properties of loadInitialPattern                                        *)
(***************************************************************************)
\* C16 as claimed: for every rows >= 0 and cols >= 0, loadInitialPattern()
\* raises no error and writes no cell outside [0,rows) x [0,cols).
C16_LoadInitialPattern_AsClaimed ==
    lastOp = "init" =>
        /\ error = "none"
        /\ \A i \in DOMAIN ActiveCells(game) :
              /\ i \in 0..(game.rows - 1)
              /\ DOMAIN ActiveCells(game)[i] \subseteq 0..(game.cols - 1)

(***************************************************************************)
(* Properties of the ThemeManager                                          *)
(***************************************************************************)
\* C17: for every argument, setTheme(theme) leaves the data-theme attribute
\* present iff theme is 'light' and dispatches exactly one themeChanged event,
\* whose detail.theme is theme if that is 'light' or 'dark' and 'dark'
\* otherwise; saveTheme writes only 'light' or 'dark' to the storage.
C17_SetThemeValidates ==
    /\ lastOp = "setTheme" =>
          /\ theme.attr <=> args.theme = "light"
          /\ calls.events = <<IF args.theme \in {"light", "dark"}
                              THEN args.theme ELSE "dark">>
    /\ lastOp = "saveTheme" =>
          \/ theme.stored = pre.theme.stored
          \/ theme.stored = args.theme /\ args.theme \in {"light", "dark"}
    /\ theme.stored # seed.stored => theme.stored \in {"light", "dark"}

\* C17 witness: setTheme called with a value that is neither 'light' nor
\* 'dark' while the light theme was applied, with a game listening.
C17_Witness ==
    /\ lastOp = "setTheme"
    /\ args.theme = "auto"
    /\ pre.theme.attr
    /\ "themeChanged" \in listeners

\* C18: with no theme item stored, a change of the system's colour scheme
\* applies the dark theme iff the system prefers dark; once the user has used
\* the theme switch, no such change alters the applied theme or the switch.
C18_SystemThemeChange ==
    lastOp = "handleSystemThemeChange" =>
        /\ pre.theme.stored = "null" => (theme.attr <=> ~args.matches)
        /\ life.switchUsed => /\ theme.attr = pre.theme.attr
                              /\ theme.checked = pre.theme.checked
                              /\ calls.events = << >>

\* C18 witness: the system turned to dark after the user had switched to the
\* light theme, and the light theme stayed.
C18_Witness ==
    /\ lastOp = "handleSystemThemeChange"
    /\ life.switchUsed
    /\ args.matches
    /\ theme.attr /\ theme.checked

(***************************************************************************)
(* Properties of handleCanvasClick                                         *)
(***************************************************************************)
\* C19: a canvas click received while isPlaying is true leaves grid, nextGrid
\* and needsRedraw unchanged; a click flips a cell only while paused, and
\* then exactly the addressed cell flips and needsRedraw becomes true.
C19_ClickEditsOnlyWhilePaused ==
    lastOp = "handleCanvasClick" =>
        LET now_ == Snapshot(game, dom)
        IN  /\ pre.isPlaying =>
                  /\ now_.cells = pre.cells
                  /\ now_.scratch = pre.scratch
                  /\ now_.needsRedraw = pre.needsRedraw
            /\ now_.scratch = pre.scratch
            /\ now_.cells # pre.cells =>
                  /\ ~pre.isPlaying
                  /\ InBounds(game, args.row, args.col)
                  /\ \A i \in 0..(game.rows - 1), j \in 0..(game.cols - 1) :
                        IF <<i, j>> = <<args.row, args.col>>
                        THEN MatGet(now_.cells, i, j) = JsNot(MatGet(pre.cells, i, j))
                        ELSE MatGet(now_.cells, i, j) = MatGet(pre.cells, i, j)
                  /\ game.needsRedraw

\* C19 witness: a click while paused, after the last repaint, flipped the
\* addressed cell of a grid of more than one cell and asked for a repaint.
C19_Witness ==
    /\ lastOp = "handleCanvasClick"
    /\ ~pre.isPlaying
    /\ ~pre.needsRedraw
    /\ game.rows * game.cols > 1
    /\ ActiveCells(game) # pre.cells
    /\ game.needsRedraw

\* C19 witness of the other case: a click on a cell inside the grid while the
\* game was playing.
C19_WitnessPlaying ==
    /\ lastOp = "handleCanvasClick"
    /\ pre.isPlaying
    /\ InBounds(game, args.row, args.col)

(***************************************************************************)
(* Properties of the change flag                                           *)
(***************************************************************************)
\* C20: after updateGrid(), gridChanged is true iff some cell of the new
\* active grid differs from the grid before the step, and the step sets
\* needsRedraw only then; a tick that starts with needsRedraw false and whose
\* step is skipped or changes no cell performs no repaint.
C20_RepaintOnlyOnChange ==
    /\ LET stepped == updateGrid(game)
       IN  /\ stepped.gridChanged <=> ActiveCells(stepped) # ActiveCells(game)
           /\ stepped.needsRedraw <=> (game.needsRedraw \/ stepped.gridChanged)
    /\ lastOp = "gameLoop" /\ calls.updateGrid = 1 =>
          (game.gridChanged <=> ActiveCells(game) # pre.cells)
    /\ ( /\ lastOp = "gameLoop"
         /\ ~pre.needsRedraw
         /\ calls.updateGrid = 0 \/ ActiveCells(game) = pre.cells )
       => calls.redraw = 0 /\ calls.painted = {}

\* C20 witness: a tick that started with needsRedraw false ran a step on a
\* grid with a live cell, the step changed no cell, and nothing was repainted.
C20_Witness ==
    /\ lastOp = "gameLoop"
    /\ ~pre.needsRedraw
    /\ calls.updateGrid = 1
    /\ PaintedCells(game) # {}
    /\ ActiveCells(game) = pre.cells
    /\ ~game.gridChanged
    /\ calls.redraw = 0

\* C20 witness of the other cases: a tick without a step that repainted
\* because a repaint was pending.
C20_WitnessPending ==
    /\ lastOp = "gameLoop"
    /\ pre.needsRedraw
    /\ calls.updateGrid = 0
    /\ calls.redraw = 1

(***************************************************************************)
(* Properties of the speed slider                                          *)
(***************************************************************************)
\* C21: a speed input whose parsed value is not an integer in [0, 100] (below
\* 0, above 100 or not a number) leaves updateInterval unchanged and raises
\* no error; an input in range sets updateInterval to
\* BASE_INTERVAL / sliderToSpeed(value).
C21_SpeedInputValidated ==
    lastOp = "speedInput" =>
        LET parsed == parseInt(args.value)
            inRange == ~parsed.isNaN /\ parsed.value \in SLIDER_MIN..SLIDER_MAX
        IN  /\ error = "none"
            /\ ~inRange => game.updateInterval = pre.updateInterval
            /\ inRange =>
                  game.updateInterval
                      = Ratio(BASE_INTERVAL * SpeedUnit, sliderToSpeed(parsed.value))

\* C21 witness: after the slider was moved to 100 (interval 20 ms), an input
\* of "101" left the interval alone.
C21_Witness ==
    /\ lastOp = "speedInput"
    /\ args.value = <<"1", "0", "1">>
    /\ pre.dom.slider = <<"1", "0", "0">>
    /\ game.updateInterval = Ratio(BASE_INTERVAL, 10)

\* C21 witness of the accepted case: an input of "0" set the interval to
\* 2000 ms.
C21_WitnessAccepted ==
    /\ lastOp = "speedInput"
    /\ args.value = <<"0">>
    /\ pre.updateInterval # game.updateInterval
    /\ game.updateInterval = Ratio(10 * BASE_INTERVAL, 1)

(***************************************************************************)
(* Properties of the random cells                                          *)
(***************************************************************************)
\* the in-bounds cells onto which the centred pattern maps a 1
PatternOnes(g) ==
    LET startRow == (g.rows \div 2) - (Len(gliderGun) \div 2)
        startCol == (g.cols \div 2) - (Len(gliderGun[1]) \div 2)
    IN  {<<r, c>> \in (0..(g.rows - 1)) \X (0..(g.cols - 1)) :
            /\ r - startRow \in 0..(Len(gliderGun) - 1)
            /\ c - startCol \in 0..(Len(gliderGun[1]) - 1)
            /\ gliderGun[r - startRow + 1][c - startCol + 1] = 1}

\* C22 as claimed: immediately after loadInitialPattern(), every in-bounds
\* cell onto which the pattern maps a 1 is alive, for every outcome of the
\* random choices.
C22_PatternSurvivesRandomCells_AsClaimed ==
    lastOp = "init" =>
        \A cell \in PatternOnes(game) :
            Truthy(MatGet(ActiveCells(game), cell[1], cell[2]))

\* C23 as claimed: in every reachable state the step interval in effect
\* equals BASE_INTERVAL / sliderToSpeed(current value of the speed control);
\* before any speed input, with the control at 50, it is BASE_INTERVAL.
C23_IntervalMatchesControl_AsClaimed ==
    LET control == parseInt(dom.slider)
    IN  ~control.isNaN /\ control.value \in SLIDER_MIN..SLIDER_MAX =>
            game.updateInterval
                = Ratio(BASE_INTERVAL * SpeedUnit, sliderToSpeed(control.value))

(***************************************************************************)
(* Properties of the events after destroy()                                *)
(***************************************************************************)
\* C24 as claimed: after destroy(), no later event delivered to the instance
\* (canvas click, toggle, resize timer, theme change, visibility change)
\* reads or writes a cell of the nulled grids or raises an error.
C24_EventsAfterDestroyAreSafe_AsClaimed ==
    life.destroyCalls >= 1 =>
        /\ error = "none"
        /\ game.grid = "null" /\ game.nextGrid = "null"

\* after destroy(), the only handler that raises is the canvas click of a
\* paused game on a cell inside the former grid
OnlyPausedClickRaisesAfterDestroy ==
    life.destroyCalls >= 1 /\ error # "none" =>
        /\ lastOp = "handleCanvasClick"
        /\ ~pre.isPlaying
        /\ args.row \in 0..(pre.rows - 1) /\ args.col \in 0..(pre.cols - 1)

(***************************************************************************)
(* Properties of the theme at page load                                    *)
(***************************************************************************)
\* C25 as claimed: for every stored theme item and every colour scheme of
\* the system, ThemeManager.init() leaves the data-theme attribute as the
\* block that runs at load set it, and afterwards the switch is checked iff
\* the light theme is applied (markup without the attribute and with the
\* switch unchecked).
C25_InitKeepsAntiFlashTheme_AsClaimed ==
    lastOp = "ThemeManager.init" /\ ~seed.markup.attr /\ ~seed.markup.checked =>
        /\ theme.attr = seed.flashed.attr
        /\ theme.checked <=> theme.attr

\* with no stored item, an empty one, 'light' or 'dark', init() keeps the
\* attribute of the block that runs at load and sets the switch to match
InitKeepsAntiFlashThemeOfValidItems ==
    ( /\ lastOp = "ThemeManager.init"
      /\ ~seed.markup.attr
      /\ seed.stored \in {"null", "", "light", "dark"} )
    => /\ theme.attr = seed.flashed.attr
       /\ theme.checked <=> theme.attr

(***************************************************************************)
(* Liveness of the frame loop                                              *)
(***************************************************************************)
\* C26 as claimed: without a destroy() call, under fair delivery of frames,
\* (a) whenever needsRedraw is set a repaint eventually happens and clears
\* it, and (b) if the game stays Playing from some point on, steps keep
\* happening.
C26_LoopIsLive_AsClaimed ==
    /\ game.needsRedraw ~> ~game.needsRedraw
    /\ <>[](game.isPlaying) => []<>(lastOp = "gameLoop" /\ calls.updateGrid = 1)

\* the same for the game the page holds in window.conwayGame, whose init()
\* has completed
LoopIsLiveOnceStarted ==
    /\ (page.conwayGame /\ game.needsRedraw) ~> ~game.needsRedraw
    /\ <>[](page.conwayGame /\ game.isPlaying)
           => []<>(lastOp = "gameLoop" /\ calls.updateGrid = 1)

\* while the game has not been destroyed, init() having completed, exactly
\* one frame is pending
OneFramePending == page.conwayGame => frame /\ game.animationId = "frame"

====
